---- MODULE Spec2Model ----
(***************************************************************************)
(* State-machine model of the frame pipeline of DMXBridge                  *)
(* (src/dmx_bridge.py): the ingestion callback (_on_dmx / _on_artnet_dmx), *)
(* the output worker thread (_output_worker, _send_frame_to_arduino) and   *)
(* the control calls (connect, start_protocol, shutdown), send_test and    *)
(* the diagnostic calls (get_fps, get_performance_stats).                  *)
(*                                                                         *)
(* Python threads interleave between statements, so every handler is split *)
(* at the points where it reads or writes shared state; queue.Queue calls  *)
(* (put_nowait, get_nowait) are atomic, as the library's lock makes them.  *)
(* Lists are objects: a frame is an object id into `heap`, so that the     *)
(* queue and dmx_data can hold the same object.                            *)
(***************************************************************************)
EXTENDS Integers, Sequences, FiniteSets

\* ---------------------------------------------------------------- bounds
\* config.FRAME_BUFFER_SIZE and config.DMX_CHANNELS, scaled down.
FRAME_BUFFER_SIZE == 2
DMX_CHANNELS == 2
\* Number of ingestion callbacks, of due ticks between two resets of
\* fps_counter, and of start_protocol / shutdown calls that a run makes.
MaxPush == 3
MaxFps == 2
MaxStart == 2
MaxStop == 2
\* Number of send_test calls and of diagnostic calls of a run; the longest
\* time between two get_fps calls, in whole seconds.
MaxTest == 1
MaxSample == 1
MaxElapsed == 1

\* target_interval = 1.0 / OUTPUT_FPS, in clock ticks; the clock's last tick
Interval == 4
MaxTime == 12

\* for _ in range(5): the copies of a test pattern send_test queues
TEST_COPIES == 5

\* The raw frames the decoder delivers: too short (one channel at full),
\* exact length (all channels at full) and too long (zeros with a last,
\* surplus channel at full).
RawFrames ==
    { <<255>>,
      [i \in 1..DMX_CHANNELS |-> 255],
      [i \in 1..(DMX_CHANNELS + 1) |-> IF i = DMX_CHANNELS + 1 THEN 255 ELSE 0] }

Threads == 1..MaxStart
ObjIds == 0..(MaxPush + MaxTest)

\* send_test's patterns (any other name gives all_off)
Patterns == {"all_off", "all_on", "first_5", "dim"}

VARIABLES
    ser,               \* self.ser: "none" | "open" | "closed"
    listening,         \* a receiver / artnet_server delivers callbacks
    running,           \* self.running
    output_thread,     \* self.output_thread: 0 (None) or a thread id
    frame_queue,       \* self.frame_queue: sequence of object ids, oldest first
    heap,              \* list objects: id -> channel values (<<>>: not allocated)
    dmx_data,          \* self.dmx_data: object id
    active,            \* self.active
    last_active_state, \* self.last_active_state
    dropped_frames,    \* self.dropped_frames
    processed_frames,  \* self.processed_frames
    fps_counter,       \* self.fps_counter
    pcI,               \* ingestion callback: position
    iData,             \* ingestion callback: local `data` (object id)
    pcW,               \* output worker threads: position
    wFrame,            \* output worker: frame passed to _send_frame_to_arduino
    wSrc,              \* output worker: "queue" (try body) | "last" (except queue.Empty)
    pcC,               \* control thread: position inside start_protocol / shutdown
    \* history variables (observations, not program state)
    pushes,            \* ingestion callbacks begun
    enq,               \* ids a callback has put on the queue
    fullPushes,        \* callbacks whose put_nowait raised queue.Full
    events,            \* activity lines printed: "ACTIVE" / "INACTIVE"
    startCalls,        \* start_protocol calls begun
    stopCalls,         \* shutdown calls returned
    nthreads,          \* threads created so far
    sendsAfterStop,    \* sink calls begun while running was False
    everSent,          \* some sink call has returned
    inSendAtStop,      \* workers that were inside the sink when shutdown cleared the flag
    abortedSend,       \* such a send ended without its write because the port was closed
    wroteAfterReturn,  \* a write completed after shutdown returned
    wPacket,           \* _send_frame_to_arduino: local `packet` (<<>>: none)
    wRes,              \* how this tick's send ended: "none" | "skip" | "ok" | "err"
    lastRaw,           \* the raw frame the latest callback was given
    tData,             \* send_test: local `data` (object id; 0 outside a call)
    tPuts,             \* send_test: iterations of `for _ in range(5)` done
    tests,             \* send_test calls made
    fps,               \* self.fps as <<frames, seconds>> (their quotient)
    pcG,               \* diagnostics caller: "idle" | "g_reset" | "s_return"
    gElapsed,          \* get_fps: local `elapsed`, in whole seconds
    gRate,             \* get_performance_stats: local `drop_rate`, a fraction
    gFps,              \* what the latest call, get_fps, returned (-1: none)
    gStats,            \* what the latest call, get_performance_stats, returned
    samples,           \* diagnostic calls made
    now,               \* time.perf_counter(), in clock ticks
    wCur,              \* _output_worker: local `current_time`
    wNext,             \* _output_worker: local `next_send_time`
    wStart,            \* the time at which the loop was entered
    wLastSend,         \* the time of the loop's latest call of the sink
    popped             \* history: frames the loop took out of the queue

vars == <<ser, listening, running, output_thread, frame_queue, heap, dmx_data,
          active, last_active_state, dropped_frames, processed_frames,
          fps_counter, pcI, iData, pcW, wFrame, wSrc, pcC, pushes, enq, events,
          fullPushes,
          startCalls, stopCalls, nthreads, sendsAfterStop, everSent,
          inSendAtStop, abortedSend, wroteAfterReturn, wPacket, wRes,
          lastRaw, tData, tPuts, tests, fps, pcG, gElapsed, gRate, gFps,
          gStats, samples, now, wCur, wNext, wStart, wLastSend,
          popped>>

pipeVars == <<frame_queue, heap, dmx_data, active, last_active_state,
              dropped_frames, processed_frames, pcI, iData, pushes, enq, events,
              fullPushes>>
workerVars == <<fps_counter, pcW, wFrame, wSrc, sendsAfterStop, everSent,
                abortedSend, wroteAfterReturn>>
sinkVars == <<wPacket, wRes>>
callVars == <<lastRaw>>
testVars == <<tData, tPuts, tests>>
statVars == <<fps, pcG, gElapsed, gRate, gFps, gStats, samples>>
timeVars == <<now, wCur, wNext, wStart, wLastSend>>
ctlVars == <<ser, listening, running, output_thread, pcC, startCalls,
             stopCalls, nthreads, inSendAtStop>>
histVars == <<popped>>

\* ------------------------------------------------------- pure functions
Zeros(n) == [i \in 1..n |-> 0]

\* Normalize without the padding branch: a short frame is stored as given.
Normalize_NoPad(raw) ==
    IF Len(raw) > DMX_CHANNELS THEN SubSeq(raw, 1, DMX_CHANNELS) ELSE raw

\* data = list(...); pad with zeros / truncate to DMX_CHANNELS.
Normalize(raw) ==
    IF Len(raw) < DMX_CHANNELS
    THEN raw \o Zeros(DMX_CHANNELS - Len(raw))
    ELSE IF Len(raw) > DMX_CHANNELS
         THEN SubSeq(raw, 1, DMX_CHANNELS)
         ELSE raw

\* has_data = any(v > 0 for v in data)
HasData(data) == \E i \in 1..Len(data) : data[i] > 0

\* the line printed on a transition
EventOf(has_data) == IF has_data THEN "ACTIVE" ELSE "INACTIVE"

\* Encode with the two count bytes in the other order (high byte first).
Encode_HighFirst(data) ==
    [i \in 1..(3 + Len(data)) |->
        IF i = 1 THEN 255
        ELSE IF i = 2 THEN (DMX_CHANNELS \div 256) % 256
        ELSE IF i = 3 THEN DMX_CHANNELS % 256
        ELSE data[i - 3]]

\* packet = bytearray(3 + len(data)); packet[0] = 0xFF;
\* packet[1] = DMX_CHANNELS & 0xFF; packet[2] = (DMX_CHANNELS >> 8) & 0xFF;
\* packet[3:] = data   (channel values are bytes, 0..255)
CountLo(n) == n % 256
CountHi(n) == (n \div 256) % 256
Encode(data) ==
    [i \in 1..(3 + Len(data)) |->
        IF i = 1 THEN 255
        ELSE IF i = 2 THEN CountLo(DMX_CHANNELS)
        ELSE IF i = 3 THEN CountHi(DMX_CHANNELS)
        ELSE data[i - 3]]

\* `if self.dmx_data:` -- a list is true iff it is not empty
Truthy(id) == Len(heap[id]) > 0

\* Python's data[:5] = [255] * 5 : the first five places (or as many as
\* there are) are replaced by five values
SliceAssign5(data) == [i \in 1..5 |-> 255] \o SubSeq(data, 6, Len(data))

\* the list send_test builds for a pattern
TestFrame(pattern) ==
    CASE pattern = "all_on"  -> [i \in 1..DMX_CHANNELS |-> 255]
      [] pattern = "first_5" -> SliceAssign5(Zeros(DMX_CHANNELS))
      [] pattern = "dim"     -> [i \in 1..DMX_CHANNELS |-> 128]
      [] OTHER               -> Zeros(DMX_CHANNELS)

\* a / b on floats: a fraction, or the ZeroDivisionError Python raises
Div(a, b) == IF b = 0 THEN <<"ZeroDivisionError">> ELSE <<a, b>>

\* int(x) of a non-negative fraction
IntOf(x) == x[1] \div x[2]

\* no dictionary returned
NoStats ==
    [fps |-> <<0, 1>>, processed_frames |-> -1, dropped_frames |-> -1,
     drop_rate |-> <<0, 1>>, active |-> FALSE]

\* --------------------------------------------------------------- __init__
Init ==
    /\ ser = "none"
    /\ listening = FALSE
    /\ running = FALSE
    /\ output_thread = 0
    /\ frame_queue = <<>>
    /\ heap = [o \in ObjIds |-> IF o = 0 THEN Zeros(DMX_CHANNELS) ELSE <<>>]
    /\ dmx_data = 0
    /\ active = FALSE
    /\ last_active_state = FALSE
    /\ dropped_frames = 0
    /\ processed_frames = 0
    /\ fps_counter = 0
    /\ pcI = "idle"
    /\ iData = 0
    /\ pcW = [t \in Threads |-> "none"]
    /\ wFrame = [t \in Threads |-> 0]
    /\ wSrc = [t \in Threads |-> "none"]
    /\ pcC = "idle"
    /\ pushes = 0
    /\ enq = {}
    /\ events = <<>>
    /\ fullPushes = 0
    /\ startCalls = 0
    /\ stopCalls = 0
    /\ nthreads = 0
    /\ sendsAfterStop = 0
    /\ everSent = FALSE
    /\ inSendAtStop = {}
    /\ abortedSend = FALSE
    /\ wroteAfterReturn = FALSE
    /\ wPacket = [t \in Threads |-> <<>>]
    /\ wRes = [t \in Threads |-> "none"]
    /\ lastRaw = <<>>
    /\ tData = 0
    /\ tPuts = 0
    /\ tests = 0
    /\ fps = <<0, 1>>
    /\ pcG = "idle"
    /\ gElapsed = 0
    /\ gRate = <<0, 1>>
    /\ gFps = -1
    /\ gStats = NoStats
    /\ samples = 0
    /\ now = 0
    /\ wCur = [t \in Threads |-> 0]
    /\ wNext = [t \in Threads |-> 0]
    /\ wStart = [t \in Threads |-> 0]
    /\ wLastSend = [t \in Threads |-> 0]
    /\ popped = 0

\* ------------------------------------------- _on_dmx / _on_artnet_dmx
\* Both callbacks have the same body; the library's receiver thread calls
\* one of them once per packet, one call at a time.

\* data = list(packet.dmxData), pad / truncate, self.dmx_data = data
I_Receive(raw) ==
    /\ pcI = "idle"
    /\ listening
    /\ pushes < MaxPush
    /\ pushes' = pushes + 1
    /\ heap' = [heap EXCEPT ![pushes + 1] = Normalize(raw)]
    /\ iData' = pushes + 1
    /\ dmx_data' = pushes + 1
    /\ pcI' = "observe"
    /\ UNCHANGED <<frame_queue, active, last_active_state, dropped_frames,
                   processed_frames, enq, events>>
    /\ UNCHANGED <<workerVars, ctlVars>>
    /\ UNCHANGED fullPushes
    /\ lastRaw' = raw
    /\ UNCHANGED sinkVars
    /\ UNCHANGED testVars
    /\ UNCHANGED statVars
    /\ UNCHANGED timeVars
    /\ UNCHANGED histVars

\* I_Observe with the stored state left stale (self.last_active_state is
\* not updated on a transition).
I_Observe_Stale ==
    /\ pcI = "observe"
    /\ LET has_data == HasData(heap[iData]) IN
       IF has_data # last_active_state
       THEN /\ active' = has_data
            /\ events' = Append(events, EventOf(has_data))
       ELSE UNCHANGED <<active, events>>
    /\ pcI' = "put"
    /\ UNCHANGED <<frame_queue, heap, dmx_data, dropped_frames,
                   processed_frames, iData, pushes, enq, last_active_state,
                   fullPushes>>
    /\ UNCHANGED <<workerVars, ctlVars>>
    /\ UNCHANGED <<sinkVars, callVars>>
    /\ UNCHANGED testVars
    /\ UNCHANGED statVars
    /\ UNCHANGED timeVars
    /\ UNCHANGED histVars

\* has_data = any(...); if has_data != self.last_active_state: ... print
I_Observe ==
    /\ pcI = "observe"
    /\ LET has_data == HasData(heap[iData]) IN
       IF has_data # last_active_state
       THEN /\ active' = has_data
            /\ last_active_state' = has_data
            /\ events' = Append(events, EventOf(has_data))
       ELSE UNCHANGED <<active, last_active_state, events>>
    /\ pcI' = "put"
    /\ UNCHANGED <<frame_queue, heap, dmx_data, dropped_frames,
                   processed_frames, iData, pushes, enq>>
    /\ UNCHANGED <<workerVars, ctlVars>>
    /\ UNCHANGED fullPushes
    /\ UNCHANGED <<sinkVars, callVars>>
    /\ UNCHANGED testVars
    /\ UNCHANGED statVars
    /\ UNCHANGED timeVars
    /\ UNCHANGED histVars

\* I_Put with a blocking put(): the callback waits for a free slot instead
\* of taking the queue.Full branch.
I_Put_Blocking ==
    /\ pcI = "put"
    /\ Len(frame_queue) < FRAME_BUFFER_SIZE
    /\ frame_queue' = Append(frame_queue, iData)
    /\ enq' = enq \cup {iData}
    /\ pcI' = "count"
    /\ UNCHANGED <<heap, dmx_data, active, last_active_state, dropped_frames,
                   processed_frames, iData, pushes, events, fullPushes>>
    /\ UNCHANGED <<workerVars, ctlVars, sinkVars, callVars>>
    /\ UNCHANGED testVars
    /\ UNCHANGED statVars
    /\ UNCHANGED timeVars
    /\ UNCHANGED histVars

\* self.frame_queue.put_nowait(data), or queue.Full
I_Put ==
    /\ pcI = "put"
    /\ IF Len(frame_queue) < FRAME_BUFFER_SIZE
       THEN /\ frame_queue' = Append(frame_queue, iData)
            /\ enq' = enq \cup {iData}
            /\ pcI' = "count"
            /\ UNCHANGED fullPushes
       ELSE /\ pcI' = "full"
            /\ fullPushes' = fullPushes + 1
            /\ UNCHANGED <<frame_queue, enq>>
    /\ UNCHANGED <<heap, dmx_data, active, last_active_state, dropped_frames,
                   processed_frames, iData, pushes, events>>
    /\ UNCHANGED <<workerVars, ctlVars>>
    /\ UNCHANGED <<sinkVars, callVars>>
    /\ UNCHANGED testVars
    /\ UNCHANGED statVars
    /\ UNCHANGED timeVars
    /\ UNCHANGED histVars

\* self.processed_frames += 1
I_Count ==
    /\ pcI = "count"
    /\ processed_frames' = processed_frames + 1
    /\ pcI' = "idle"
    /\ UNCHANGED <<frame_queue, heap, dmx_data, active, last_active_state,
                   dropped_frames, iData, pushes, enq, events>>
    /\ UNCHANGED <<workerVars, ctlVars>>
    /\ UNCHANGED fullPushes
    /\ UNCHANGED <<sinkVars, callVars>>
    /\ UNCHANGED testVars
    /\ UNCHANGED statVars
    /\ UNCHANGED timeVars
    /\ UNCHANGED histVars

\* I_Full with the processed counter bumped as well (both counters on a
\* full buffer).
I_Full_CountsBoth ==
    /\ pcI = "full"
    /\ dropped_frames' = dropped_frames + 1
    /\ processed_frames' = processed_frames + 1
    /\ pcI' = "evict"
    /\ UNCHANGED <<frame_queue, heap, dmx_data, active, last_active_state,
                   iData, pushes, enq, events, fullPushes>>
    /\ UNCHANGED <<workerVars, ctlVars>>
    /\ UNCHANGED <<sinkVars, callVars>>
    /\ UNCHANGED testVars
    /\ UNCHANGED statVars
    /\ UNCHANGED timeVars
    /\ UNCHANGED histVars

\* except queue.Full: self.dropped_frames += 1
I_Full ==
    /\ pcI = "full"
    /\ dropped_frames' = dropped_frames + 1
    /\ pcI' = "evict"
    /\ UNCHANGED <<frame_queue, heap, dmx_data, active, last_active_state,
                   processed_frames, iData, pushes, enq, events>>
    /\ UNCHANGED <<workerVars, ctlVars>>
    /\ UNCHANGED fullPushes
    /\ UNCHANGED <<sinkVars, callVars>>
    /\ UNCHANGED testVars
    /\ UNCHANGED statVars
    /\ UNCHANGED timeVars
    /\ UNCHANGED histVars

\* self.frame_queue.get_nowait(); except queue.Empty: pass
I_Evict ==
    /\ pcI = "evict"
    /\ IF frame_queue # <<>>
       THEN /\ frame_queue' = Tail(frame_queue)
            /\ pcI' = "reput"
       ELSE /\ pcI' = "idle"
            /\ UNCHANGED frame_queue
    /\ UNCHANGED <<heap, dmx_data, active, last_active_state, dropped_frames,
                   processed_frames, iData, pushes, enq, events>>
    /\ UNCHANGED <<workerVars, ctlVars>>
    /\ UNCHANGED fullPushes
    /\ UNCHANGED <<sinkVars, callVars>>
    /\ UNCHANGED testVars
    /\ UNCHANGED statVars
    /\ UNCHANGED timeVars
    /\ UNCHANGED histVars

\* I_Reput with the re-queued frame counted as processed.
I_Reput_Counts ==
    /\ pcI = "reput"
    /\ IF Len(frame_queue) < FRAME_BUFFER_SIZE
       THEN /\ frame_queue' = Append(frame_queue, iData)
            /\ enq' = enq \cup {iData}
            /\ processed_frames' = processed_frames + 1
       ELSE UNCHANGED <<frame_queue, enq, processed_frames>>
    /\ pcI' = "idle"
    /\ UNCHANGED <<heap, dmx_data, active, last_active_state, dropped_frames,
                   iData, pushes, events, fullPushes>>
    /\ UNCHANGED <<workerVars, ctlVars>>
    /\ UNCHANGED <<sinkVars, callVars>>
    /\ UNCHANGED testVars
    /\ UNCHANGED statVars
    /\ UNCHANGED timeVars
    /\ UNCHANGED histVars

\* self.frame_queue.put_nowait(data); a queue.Full here is not queue.Empty
\* and reaches the outer `except Exception`, which prints and returns.
I_Reput ==
    /\ pcI = "reput"
    /\ IF Len(frame_queue) < FRAME_BUFFER_SIZE
       THEN /\ frame_queue' = Append(frame_queue, iData)
            /\ enq' = enq \cup {iData}
       ELSE UNCHANGED <<frame_queue, enq>>
    /\ pcI' = "idle"
    /\ UNCHANGED <<heap, dmx_data, active, last_active_state, dropped_frames,
                   processed_frames, iData, pushes, events>>
    /\ UNCHANGED <<workerVars, ctlVars>>
    /\ UNCHANGED fullPushes
    /\ UNCHANGED <<sinkVars, callVars>>
    /\ UNCHANGED testVars
    /\ UNCHANGED statVars
    /\ UNCHANGED timeVars
    /\ UNCHANGED histVars

\* ------------------------------------------------------- _output_worker
\* Positions of a worker thread t:
\*   "none" not created, "check" at `while self.running`, "time" at the
\*   perf_counter comparison, "get" at get_nowait, "empty" in the
\*   `except queue.Empty` handler, "send" at the call of
\*   _send_frame_to_arduino, "write" before ser.write, "writing" inside
\*   ser.write, "count" at `self.fps_counter += 1`, "done" returned.
InSink == {"write", "writing"}

\* W_Check with the flag ignored (`while True`).
W_Check_IgnoresFlag(t) ==
    /\ pcW[t] = "check"
    /\ pcW' = [pcW EXCEPT ![t] = "time"]
    /\ UNCHANGED <<fps_counter, wFrame, wSrc, sendsAfterStop, everSent,
                   abortedSend, wroteAfterReturn>>
    /\ UNCHANGED <<pipeVars, ctlVars>>
    /\ UNCHANGED <<sinkVars, callVars>>
    /\ UNCHANGED testVars
    /\ UNCHANGED statVars
    /\ wCur' = [wCur EXCEPT ![t] = now]
    /\ UNCHANGED <<now, wNext, wStart, wLastSend>>
    /\ UNCHANGED histVars

\* while self.running: current_time = time.perf_counter()
W_Check(t) ==
    /\ pcW[t] = "check"
    /\ pcW' = [pcW EXCEPT ![t] = IF running THEN "time" ELSE "done"]
    /\ UNCHANGED <<fps_counter, wFrame, wSrc, sendsAfterStop, everSent,
                   abortedSend, wroteAfterReturn>>
    /\ UNCHANGED <<pipeVars, ctlVars>>
    /\ UNCHANGED <<sinkVars, callVars>>
    /\ UNCHANGED testVars
    /\ UNCHANGED statVars
    /\ wCur' = [wCur EXCEPT ![t] = IF running THEN now ELSE @]
    /\ UNCHANGED <<now, wNext, wStart, wLastSend>>
    /\ UNCHANGED histVars

\* current_time >= next_send_time: the clock is not modelled, a tick is due
\* at any evaluation; MaxFps bounds the ticks of one sampling window.
W_Due(t) ==
    /\ pcW[t] = "time"
    /\ fps_counter < MaxFps
    /\ pcW' = [pcW EXCEPT ![t] = "get"]
    /\ UNCHANGED <<fps_counter, wFrame, wSrc, sendsAfterStop, everSent,
                   abortedSend, wroteAfterReturn>>
    /\ UNCHANGED <<pipeVars, ctlVars>>
    /\ UNCHANGED <<sinkVars, callVars>>
    /\ UNCHANGED testVars
    /\ UNCHANGED statVars
    /\ UNCHANGED timeVars
    /\ UNCHANGED histVars

\* else: time.sleep(sleep_time * 0.5), back to the loop condition
W_Sleep(t) ==
    /\ pcW[t] = "time"
    /\ pcW' = [pcW EXCEPT ![t] = "check"]
    /\ UNCHANGED <<fps_counter, wFrame, wSrc, sendsAfterStop, everSent,
                   abortedSend, wroteAfterReturn>>
    /\ UNCHANGED <<pipeVars, ctlVars>>
    /\ UNCHANGED <<sinkVars, callVars>>
    /\ UNCHANGED testVars
    /\ UNCHANGED statVars
    /\ UNCHANGED timeVars
    /\ UNCHANGED histVars

\* W_Get that also stores the popped frame as self.dmx_data.
W_Get_StoresLast(t) ==
    /\ pcW[t] = "get"
    /\ IF frame_queue # <<>>
       THEN /\ wFrame' = [wFrame EXCEPT ![t] = Head(frame_queue)]
            /\ wSrc' = [wSrc EXCEPT ![t] = "queue"]
            /\ frame_queue' = Tail(frame_queue)
            /\ dmx_data' = Head(frame_queue)
            /\ pcW' = [pcW EXCEPT ![t] = "send"]
       ELSE /\ pcW' = [pcW EXCEPT ![t] = "empty"]
            /\ UNCHANGED <<wFrame, wSrc, frame_queue, dmx_data>>
    /\ UNCHANGED <<fps_counter, sendsAfterStop, everSent, abortedSend,
                   wroteAfterReturn>>
    /\ UNCHANGED <<heap, active, last_active_state, dropped_frames,
                   processed_frames, pcI, iData, pushes, enq, events>>
    /\ UNCHANGED <<ctlVars, fullPushes, sinkVars, callVars>>
    /\ UNCHANGED testVars
    /\ UNCHANGED statVars
    /\ UNCHANGED timeVars
    /\ popped' = IF frame_queue # <<>> THEN popped + 1 ELSE popped

\* variant: the loop reads the oldest entry and leaves it in the queue
W_Get_Peeks(t) ==
    /\ pcW[t] = "get"
    /\ IF frame_queue # <<>>
       THEN /\ wFrame' = [wFrame EXCEPT ![t] = Head(frame_queue)]
            /\ wSrc' = [wSrc EXCEPT ![t] = "queue"]
            /\ frame_queue' = frame_queue
            /\ pcW' = [pcW EXCEPT ![t] = "send"]
       ELSE /\ pcW' = [pcW EXCEPT ![t] = "empty"]
            /\ UNCHANGED <<wFrame, wSrc, frame_queue>>
    /\ UNCHANGED <<fps_counter, sendsAfterStop, everSent, abortedSend,
                   wroteAfterReturn>>
    /\ UNCHANGED <<heap, dmx_data, active, last_active_state, dropped_frames,
                   processed_frames, pcI, iData, pushes, enq, events>>
    /\ UNCHANGED ctlVars
    /\ UNCHANGED fullPushes
    /\ UNCHANGED <<sinkVars, callVars>>
    /\ UNCHANGED testVars
    /\ UNCHANGED statVars
    /\ UNCHANGED timeVars
    /\ UNCHANGED histVars

\* variant: the loop takes the newest entry of the queue
W_Get_TakesNewest(t) ==
    /\ pcW[t] = "get"
    /\ IF frame_queue # <<>>
       THEN /\ wFrame' = [wFrame EXCEPT ![t] = frame_queue[Len(frame_queue)]]
            /\ wSrc' = [wSrc EXCEPT ![t] = "queue"]
            /\ frame_queue' = SubSeq(frame_queue, 1, Len(frame_queue) - 1)
            /\ pcW' = [pcW EXCEPT ![t] = "send"]
       ELSE /\ pcW' = [pcW EXCEPT ![t] = "empty"]
            /\ UNCHANGED <<wFrame, wSrc, frame_queue>>
    /\ UNCHANGED <<fps_counter, sendsAfterStop, everSent, abortedSend,
                   wroteAfterReturn>>
    /\ UNCHANGED <<heap, dmx_data, active, last_active_state, dropped_frames,
                   processed_frames, pcI, iData, pushes, enq, events>>
    /\ UNCHANGED ctlVars
    /\ UNCHANGED fullPushes
    /\ UNCHANGED <<sinkVars, callVars>>
    /\ UNCHANGED testVars
    /\ UNCHANGED statVars
    /\ UNCHANGED timeVars
    /\ popped' = IF frame_queue # <<>> THEN popped + 1 ELSE popped

\* frame_data = self.frame_queue.get_nowait(), or queue.Empty
W_Get(t) ==
    /\ pcW[t] = "get"
    /\ IF frame_queue # <<>>
       THEN /\ wFrame' = [wFrame EXCEPT ![t] = Head(frame_queue)]
            /\ wSrc' = [wSrc EXCEPT ![t] = "queue"]
            /\ frame_queue' = Tail(frame_queue)
            /\ pcW' = [pcW EXCEPT ![t] = "send"]
       ELSE /\ pcW' = [pcW EXCEPT ![t] = "empty"]
            /\ UNCHANGED <<wFrame, wSrc, frame_queue>>
    /\ UNCHANGED <<fps_counter, sendsAfterStop, everSent, abortedSend,
                   wroteAfterReturn>>
    /\ UNCHANGED <<heap, dmx_data, active, last_active_state, dropped_frames,
                   processed_frames, pcI, iData, pushes, enq, events>>
    /\ UNCHANGED ctlVars
    /\ UNCHANGED fullPushes
    /\ UNCHANGED <<sinkVars, callVars>>
    /\ UNCHANGED testVars
    /\ UNCHANGED statVars
    /\ UNCHANGED timeVars
    /\ popped' = IF frame_queue # <<>> THEN popped + 1 ELSE popped

\* except queue.Empty: if self.dmx_data: send self.dmx_data
W_Last(t) ==
    /\ pcW[t] = "empty"
    /\ IF Truthy(dmx_data)
       THEN /\ wFrame' = [wFrame EXCEPT ![t] = dmx_data]
            /\ wSrc' = [wSrc EXCEPT ![t] = "last"]
            /\ pcW' = [pcW EXCEPT ![t] = "send"]
       ELSE /\ pcW' = [pcW EXCEPT ![t] = "check"]
            /\ UNCHANGED <<wFrame, wSrc>>
    /\ UNCHANGED <<fps_counter, sendsAfterStop, everSent, abortedSend,
                   wroteAfterReturn>>
    /\ UNCHANGED <<pipeVars, ctlVars>>
    /\ UNCHANGED <<sinkVars, callVars>>
    /\ UNCHANGED testVars
    /\ UNCHANGED statVars
    /\ UNCHANGED timeVars
    /\ UNCHANGED histVars

\* W_SendCheck that treats a port that is not open as a write error.
W_SendCheck_Raises(t) ==
    /\ pcW[t] = "send"
    /\ pcW' = [pcW EXCEPT ![t] = IF ser = "open" THEN "write" ELSE "count"]
    /\ sendsAfterStop' = IF running THEN sendsAfterStop ELSE sendsAfterStop + 1
    /\ wRes' = [wRes EXCEPT ![t] = IF ser = "open" THEN @ ELSE "err"]
    /\ UNCHANGED <<fps_counter, wFrame, wSrc, everSent, abortedSend,
                   wroteAfterReturn>>
    /\ UNCHANGED <<pipeVars, ctlVars, wPacket, callVars>>
    /\ UNCHANGED testVars
    /\ UNCHANGED statVars
    /\ wLastSend' = [wLastSend EXCEPT ![t] = now]
    /\ UNCHANGED <<now, wCur, wNext, wStart>>
    /\ UNCHANGED histVars

\* _send_frame_to_arduino(data): if not self.ser or not self.ser.is_open: return
W_SendCheck(t) ==
    /\ pcW[t] = "send"
    /\ pcW' = [pcW EXCEPT ![t] = IF ser = "open" THEN "write" ELSE "count"]
    /\ sendsAfterStop' = IF running THEN sendsAfterStop ELSE sendsAfterStop + 1
    /\ UNCHANGED <<fps_counter, wFrame, wSrc, everSent, abortedSend,
                   wroteAfterReturn>>
    /\ UNCHANGED <<pipeVars, ctlVars>>
    /\ wRes' = [wRes EXCEPT ![t] = IF ser = "open" THEN @ ELSE "skip"]
    /\ UNCHANGED <<wPacket, callVars>>
    /\ UNCHANGED testVars
    /\ UNCHANGED statVars
    /\ wLastSend' = [wLastSend EXCEPT ![t] = now]
    /\ UNCHANGED <<now, wCur, wNext, wStart>>
    /\ UNCHANGED histVars

\* packet = bytearray(...); self.ser.write(packet) is entered; on a port
\* closed since the is_open test it raises, and the handler prints.
W_WriteBegin(t) ==
    /\ pcW[t] = "write"
    /\ IF ser = "open"
       THEN /\ pcW' = [pcW EXCEPT ![t] = "writing"]
            /\ wPacket' = [wPacket EXCEPT ![t] = Encode(heap[wFrame[t]])]
            /\ UNCHANGED <<abortedSend, wRes>>
       ELSE /\ pcW' = [pcW EXCEPT ![t] = "count"]
            /\ abortedSend' = (abortedSend \/ t \in inSendAtStop)
            /\ wRes' = [wRes EXCEPT ![t] = "err"]
            /\ UNCHANGED wPacket
    /\ UNCHANGED <<fps_counter, wFrame, wSrc, sendsAfterStop, everSent,
                   wroteAfterReturn>>
    /\ UNCHANGED <<pipeVars, ctlVars>>
    /\ UNCHANGED callVars
    /\ UNCHANGED testVars
    /\ UNCHANGED statVars
    /\ UNCHANGED timeVars
    /\ UNCHANGED histVars

\* W_WriteEnd that writes the same packet again when the write raised.
W_WriteEnd_Retries(t) ==
    /\ pcW[t] = "writing"
    /\ \E ok \in BOOLEAN :
         /\ wroteAfterReturn' =
              (wroteAfterReturn \/ (ok /\ stopCalls > 0 /\ pcC = "idle"))
         /\ abortedSend' =
              (abortedSend \/ (~ok /\ ser # "open" /\ t \in inSendAtStop))
         /\ wRes' = [wRes EXCEPT ![t] = IF ok THEN "ok" ELSE "err"]
         /\ pcW' = [pcW EXCEPT ![t] = IF ok THEN "count" ELSE "write"]
    /\ wPacket' = [wPacket EXCEPT ![t] = <<>>]
    /\ UNCHANGED <<fps_counter, wFrame, wSrc, sendsAfterStop, everSent>>
    /\ UNCHANGED <<pipeVars, ctlVars, callVars>>
    /\ UNCHANGED testVars
    /\ UNCHANGED statVars
    /\ UNCHANGED timeVars
    /\ UNCHANGED histVars

\* self.ser.write returns (ok) or raises (timeout, I/O error: caught and
\* printed). A write in progress on a port that close() has since closed
\* ends either way.
W_WriteEnd(t) ==
    /\ pcW[t] = "writing"
    /\ \E ok \in BOOLEAN :
         /\ wroteAfterReturn' =
              (wroteAfterReturn \/ (ok /\ stopCalls > 0 /\ pcC = "idle"))
         /\ abortedSend' =
              (abortedSend \/ (~ok /\ ser # "open" /\ t \in inSendAtStop))
         /\ wRes' = [wRes EXCEPT ![t] = IF ok THEN "ok" ELSE "err"]
    /\ pcW' = [pcW EXCEPT ![t] = "count"]
    /\ UNCHANGED <<fps_counter, wFrame, wSrc, sendsAfterStop, everSent>>
    /\ UNCHANGED <<pipeVars, ctlVars>>
    /\ wPacket' = [wPacket EXCEPT ![t] = <<>>]
    /\ UNCHANGED callVars
    /\ UNCHANGED testVars
    /\ UNCHANGED statVars
    /\ UNCHANGED timeVars
    /\ UNCHANGED histVars

\* self.fps_counter += 1; next_send_time += target_interval (resynchronised
\* when behind); back to the loop condition
W_Count(t) ==
    /\ pcW[t] = "count"
    /\ fps_counter' = fps_counter + 1
    /\ everSent' = TRUE
    /\ pcW' = [pcW EXCEPT ![t] = "check"]
    /\ UNCHANGED <<wFrame, wSrc, sendsAfterStop, abortedSend, wroteAfterReturn>>
    /\ UNCHANGED <<pipeVars, ctlVars>>
    /\ wRes' = [wRes EXCEPT ![t] = "none"]
    /\ UNCHANGED <<wPacket, callVars>>
    /\ UNCHANGED testVars
    /\ UNCHANGED statVars
    /\ UNCHANGED timeVars
    /\ UNCHANGED histVars

\* ---------------------------------------------------------- control calls
\* connect(): serial.Serial(...) opens the port, or raises and ser stays None
Connect ==
    /\ pcC = "idle"
    /\ ser = "none"
    /\ \E opened \in BOOLEAN : ser' = IF opened THEN "open" ELSE "none"
    /\ UNCHANGED <<listening, running, output_thread, pcC, startCalls,
                   stopCalls, nthreads, inSendAtStop>>
    /\ UNCHANGED <<pipeVars, workerVars>>
    /\ UNCHANGED <<sinkVars, callVars>>
    /\ UNCHANGED testVars
    /\ UNCHANGED statVars
    /\ UNCHANGED timeVars
    /\ UNCHANGED histVars

\* start_protocol -> _start_sacn / _start_artnet: the receiver is created
\* and the callback registered
StartReceiver ==
    /\ pcC = "idle"
    /\ startCalls < MaxStart
    /\ listening' = TRUE
    /\ startCalls' = startCalls + 1
    /\ pcC' = "start"
    /\ UNCHANGED <<ser, running, output_thread, stopCalls, nthreads,
                   inSendAtStop>>
    /\ UNCHANGED <<pipeVars, workerVars>>
    /\ UNCHANGED <<sinkVars, callVars>>
    /\ UNCHANGED testVars
    /\ UNCHANGED statVars
    /\ UNCHANGED timeVars
    /\ UNCHANGED histVars

\* self.running = True; self.output_thread = threading.Thread(...); start()
StartThread ==
    /\ pcC = "start"
    /\ running' = TRUE
    /\ nthreads' = nthreads + 1
    /\ output_thread' = nthreads + 1
    /\ pcW' = [pcW EXCEPT ![nthreads + 1] = "check"]
    /\ pcC' = "idle"
    /\ UNCHANGED <<ser, listening, startCalls, stopCalls, inSendAtStop>>
    /\ UNCHANGED <<fps_counter, wFrame, wSrc, sendsAfterStop, everSent,
                   abortedSend, wroteAfterReturn>>
    /\ UNCHANGED pipeVars
    /\ UNCHANGED <<sinkVars, callVars>>
    /\ UNCHANGED testVars
    /\ UNCHANGED statVars
    /\ wNext' = [wNext EXCEPT ![nthreads + 1] = now]
    /\ wStart' = [wStart EXCEPT ![nthreads + 1] = now]
    /\ wCur' = [wCur EXCEPT ![nthreads + 1] = now]
    /\ UNCHANGED <<now, wLastSend>>
    /\ UNCHANGED histVars

\* shutdown(): self.running = False
S_Stop ==
    /\ pcC = "idle"
    /\ stopCalls < MaxStop
    /\ running' = FALSE
    /\ inSendAtStop' = {t \in Threads : pcW[t] \in InSink}
    /\ pcC' = "join"
    /\ UNCHANGED <<ser, listening, output_thread, startCalls, stopCalls,
                   nthreads>>
    /\ UNCHANGED <<pipeVars, workerVars>>
    /\ UNCHANGED <<sinkVars, callVars>>
    /\ UNCHANGED testVars
    /\ UNCHANGED statVars
    /\ UNCHANGED timeVars
    /\ UNCHANGED histVars

IsAlive(t) == t # 0 /\ pcW[t] \notin {"none", "done"}

\* if self.output_thread and self.output_thread.is_alive(): join(timeout=1.0)
\* -- no thread, or the thread has ended
S_JoinDone ==
    /\ pcC = "join"
    /\ ~IsAlive(output_thread)
    /\ pcC' = "recv"
    /\ UNCHANGED <<ser, listening, running, output_thread, startCalls,
                   stopCalls, nthreads, inSendAtStop>>
    /\ UNCHANGED <<pipeVars, workerVars>>
    /\ UNCHANGED <<sinkVars, callVars>>
    /\ UNCHANGED testVars
    /\ UNCHANGED statVars
    /\ UNCHANGED timeVars
    /\ UNCHANGED histVars

\* join(timeout=1.0) gives up on a thread that is still alive
S_JoinTimeout ==
    /\ pcC = "join"
    /\ IsAlive(output_thread)
    /\ pcC' = "recv"
    /\ UNCHANGED <<ser, listening, running, output_thread, startCalls,
                   stopCalls, nthreads, inSendAtStop>>
    /\ UNCHANGED <<pipeVars, workerVars>>
    /\ UNCHANGED <<sinkVars, callVars>>
    /\ UNCHANGED testVars
    /\ UNCHANGED statVars
    /\ UNCHANGED timeVars
    /\ UNCHANGED histVars

\* self.receiver.stop() / self.artnet_server.close()
S_StopReceiver ==
    /\ pcC = "recv"
    /\ listening' = FALSE
    /\ pcC' = "close"
    /\ UNCHANGED <<ser, running, output_thread, startCalls, stopCalls,
                   nthreads, inSendAtStop>>
    /\ UNCHANGED <<pipeVars, workerVars>>
    /\ UNCHANGED <<sinkVars, callVars>>
    /\ UNCHANGED testVars
    /\ UNCHANGED statVars
    /\ UNCHANGED timeVars
    /\ UNCHANGED histVars

\* if self.ser and self.ser.is_open: self.ser.close(); final stats; return
S_Close ==
    /\ pcC = "close"
    /\ ser' = IF ser = "open" THEN "closed" ELSE ser
    /\ stopCalls' = stopCalls + 1
    /\ pcC' = "idle"
    /\ UNCHANGED <<listening, running, output_thread, startCalls, nthreads,
                   inSendAtStop>>
    /\ UNCHANGED <<pipeVars, workerVars>>
    /\ UNCHANGED <<sinkVars, callVars>>
    /\ UNCHANGED testVars
    /\ UNCHANGED statVars
    /\ UNCHANGED timeVars
    /\ UNCHANGED histVars

\* --------------------------------------------------------------- send_test
\* Called on the control thread (the CLI's command loop, the examples).

\* data = ...pattern...; self.dmx_data = data
T_Begin(pattern) ==
    /\ pcC = "idle"
    /\ tests < MaxTest
    /\ tests' = tests + 1
    /\ tData' = MaxPush + tests + 1
    /\ tPuts' = 0
    /\ heap' = [heap EXCEPT ![MaxPush + tests + 1] = TestFrame(pattern)]
    /\ dmx_data' = MaxPush + tests + 1
    /\ pcC' = "t_empty"
    /\ UNCHANGED <<frame_queue, active, last_active_state, dropped_frames,
                   processed_frames, pcI, iData, pushes, enq, events,
                   fullPushes>>
    /\ UNCHANGED <<ser, listening, running, output_thread, startCalls,
                   stopCalls, nthreads, inSendAtStop>>
    /\ UNCHANGED <<workerVars, sinkVars, callVars>>
    /\ UNCHANGED statVars
    /\ UNCHANGED timeVars
    /\ UNCHANGED histVars

\* while not self.frame_queue.empty():
T_Empty ==
    /\ pcC = "t_empty"
    /\ pcC' = IF frame_queue = <<>> THEN "t_put" ELSE "t_get"
    /\ UNCHANGED <<ser, listening, running, output_thread, startCalls,
                   stopCalls, nthreads, inSendAtStop>>
    /\ UNCHANGED <<pipeVars, workerVars, sinkVars, callVars, testVars>>
    /\ UNCHANGED statVars
    /\ UNCHANGED timeVars
    /\ UNCHANGED histVars

\* self.frame_queue.get_nowait()   /   except queue.Empty: break
T_Get ==
    /\ pcC = "t_get"
    /\ IF frame_queue # <<>>
       THEN /\ frame_queue' = Tail(frame_queue)
            /\ pcC' = "t_empty"
       ELSE /\ pcC' = "t_put"
            /\ UNCHANGED frame_queue
    /\ UNCHANGED <<heap, dmx_data, active, last_active_state, dropped_frames,
                   processed_frames, pcI, iData, pushes, enq, events,
                   fullPushes>>
    /\ UNCHANGED <<ser, listening, running, output_thread, startCalls,
                   stopCalls, nthreads, inSendAtStop>>
    /\ UNCHANGED <<workerVars, sinkVars, callVars, testVars>>
    /\ UNCHANGED statVars
    /\ UNCHANGED timeVars
    /\ UNCHANGED histVars

\* for _ in range(5): self.frame_queue.put_nowait(data)
\*                    except queue.Full: break
T_Put ==
    /\ pcC = "t_put"
    /\ IF tPuts < TEST_COPIES /\ Len(frame_queue) < FRAME_BUFFER_SIZE
       THEN /\ frame_queue' = Append(frame_queue, tData)
            /\ tPuts' = tPuts + 1
            /\ UNCHANGED <<pcC, tData>>
       ELSE /\ pcC' = "idle"
            /\ tPuts' = 0
            /\ tData' = 0
            /\ UNCHANGED frame_queue
    /\ UNCHANGED tests
    /\ UNCHANGED <<heap, dmx_data, active, last_active_state, dropped_frames,
                   processed_frames, pcI, iData, pushes, enq, events,
                   fullPushes>>
    /\ UNCHANGED <<ser, listening, running, output_thread, startCalls,
                   stopCalls, nthreads, inSendAtStop>>
    /\ UNCHANGED <<workerVars, sinkVars, callVars>>
    /\ UNCHANGED statVars
    /\ UNCHANGED timeVars
    /\ UNCHANGED histVars

\* ------------------------------------------------- the bridge as a library
\* The value a caller stores into a channel: a mid level of the fade.
PokeValues == {128}

\* bridge.dmx_data[0] = 255 / bridge.dmx_data[0] = brightness: an item
\* assignment on the list object dmx_data refers to, made by the caller's
\* thread between calls of the bridge
Poke(v) ==
    /\ pcC = "idle"
    /\ listening
    /\ heap[dmx_data][1] # v
    /\ heap' = [heap EXCEPT ![dmx_data][1] = v]
    /\ UNCHANGED <<frame_queue, dmx_data, active, last_active_state,
                   dropped_frames, processed_frames, pcI, iData, pushes, enq,
                   events, fullPushes>>
    /\ UNCHANGED <<ctlVars, workerVars, sinkVars, callVars, testVars>>
    /\ UNCHANGED <<statVars, timeVars, histVars>>

SendTest ==
    \/ \E pattern \in Patterns : T_Begin(pattern)
    \/ T_Empty \/ T_Get \/ T_Put

\* ------------------------------------------------------------- diagnostics
\* get_fps and get_performance_stats, called by the CLI's status thread
\* once a second and by its `s` command.

\* elapsed = current_time - self.fps_start_time  (elapsed = 0: under 1.0 s)
\* if elapsed >= 1.0: self.fps = self.fps_counter / elapsed
\* else:              return int(self.fps)
G_FpsRead(elapsed) ==
    /\ pcG = "idle"
    /\ samples < MaxSample
    /\ samples' = samples + 1
    /\ IF elapsed >= 1
       THEN /\ fps' = Div(fps_counter, elapsed)
            /\ gElapsed' = elapsed
            /\ pcG' = "g_reset"
            /\ gFps' = -1
       ELSE /\ gFps' = IntOf(fps)
            /\ UNCHANGED <<fps, gElapsed, pcG>>
    /\ gStats' = NoStats
    /\ UNCHANGED gRate
    /\ UNCHANGED <<pipeVars, workerVars, ctlVars, sinkVars, callVars, testVars>>
    /\ UNCHANGED timeVars
    /\ UNCHANGED histVars

\* self.fps_counter = 0; self.fps_start_time = current_time;
\* return int(self.fps)   (the drop-rate warning printed in between divides
\* by dropped + processed only when one of them is positive)
G_FpsReset ==
    /\ pcG = "g_reset"
    /\ fps_counter' = 0
    /\ gFps' = IntOf(fps)
    /\ gElapsed' = 0
    /\ pcG' = "idle"
    /\ UNCHANGED <<fps, gRate, gStats, samples>>
    /\ UNCHANGED <<pcW, wFrame, wSrc, sendsAfterStop, everSent, abortedSend,
                   wroteAfterReturn>>
    /\ UNCHANGED <<pipeVars, ctlVars, sinkVars, callVars, testVars>>
    /\ UNCHANGED timeVars
    /\ UNCHANGED histVars

\* get_performance_stats without the `if total_frames > 0` guard.
G_StatsRead_Unguarded ==
    /\ pcG = "idle"
    /\ samples < MaxSample
    /\ samples' = samples + 1
    /\ gRate' = Div(dropped_frames * 100, processed_frames + dropped_frames)
    /\ pcG' = "s_return"
    /\ gFps' = -1
    /\ gStats' = NoStats
    /\ UNCHANGED <<fps, gElapsed>>
    /\ UNCHANGED <<pipeVars, workerVars, ctlVars, sinkVars, callVars, testVars>>
    /\ UNCHANGED timeVars
    /\ UNCHANGED histVars

\* total_frames = self.processed_frames + self.dropped_frames
\* drop_rate = (self.dropped_frames / total_frames * 100)
\*             if total_frames > 0 else 0
G_StatsRead ==
    /\ pcG = "idle"
    /\ samples < MaxSample
    /\ samples' = samples + 1
    /\ LET total_frames == processed_frames + dropped_frames IN
         gRate' = IF total_frames > 0
                  THEN Div(dropped_frames * 100, total_frames)
                  ELSE <<0, 1>>
    /\ pcG' = "s_return"
    /\ gFps' = -1
    /\ gStats' = NoStats
    /\ UNCHANGED <<fps, gElapsed>>
    /\ UNCHANGED <<pipeVars, workerVars, ctlVars, sinkVars, callVars, testVars>>
    /\ UNCHANGED timeVars
    /\ UNCHANGED histVars

\* return {'fps': ..., 'processed_frames': ..., 'dropped_frames': ...,
\*         'drop_rate': drop_rate, 'active': self.active}
G_StatsReturn ==
    /\ pcG = "s_return"
    /\ gStats' = [fps |-> fps, processed_frames |-> processed_frames,
                  dropped_frames |-> dropped_frames, drop_rate |-> gRate,
                  active |-> active]
    /\ gRate' = <<0, 1>>
    /\ pcG' = "idle"
    /\ UNCHANGED <<fps, gElapsed, gFps, samples>>
    /\ UNCHANGED <<pipeVars, workerVars, ctlVars, sinkVars, callVars, testVars>>
    /\ UNCHANGED timeVars
    /\ UNCHANGED histVars

Diagnostics ==
    \/ \E elapsed \in 0..MaxElapsed : G_FpsRead(elapsed)
    \/ G_FpsReset \/ G_StatsRead \/ G_StatsReturn

\* ----------------------------------------------------- the loop on a clock
\* The same loop with current_time and next_send_time kept: W_Check samples
\* the clock, the statements below compare with it.

\* the clock advances
Tick ==
    /\ now < MaxTime
    /\ now' = now + 1
    /\ UNCHANGED <<wCur, wNext, wStart, wLastSend>>
    /\ UNCHANGED <<pipeVars, workerVars, ctlVars, sinkVars, callVars,
                   testVars, statVars>>
    /\ UNCHANGED histVars

\* if current_time >= next_send_time:
TW_Due(t) ==
    /\ pcW[t] = "time"
    /\ wCur[t] >= wNext[t]
    /\ pcW' = [pcW EXCEPT ![t] = "get"]
    /\ UNCHANGED <<fps_counter, wFrame, wSrc, sendsAfterStop, everSent,
                   abortedSend, wroteAfterReturn>>
    /\ UNCHANGED <<pipeVars, ctlVars, sinkVars, callVars, testVars, statVars,
                   timeVars>>
    /\ UNCHANGED histVars

\* else: sleep_time = next_send_time - current_time;
\*       time.sleep(sleep_time * 0.5): returns once at least that much time
\*       has passed (whole ticks, rounded down)
TW_Sleep(t) ==
    /\ pcW[t] = "time"
    /\ wCur[t] < wNext[t]
    /\ now - wCur[t] >= (wNext[t] - wCur[t]) \div 2
    /\ pcW' = [pcW EXCEPT ![t] = "check"]
    /\ UNCHANGED <<fps_counter, wFrame, wSrc, sendsAfterStop, everSent,
                   abortedSend, wroteAfterReturn>>
    /\ UNCHANGED <<pipeVars, ctlVars, sinkVars, callVars, testVars, statVars,
                   timeVars>>
    /\ UNCHANGED histVars

\* TW_Count without the resynchronisation of next_send_time.
TW_Count_NoResync(t) ==
    /\ pcW[t] = "count"
    /\ fps_counter' = fps_counter + 1
    /\ everSent' = TRUE
    /\ wNext' = [wNext EXCEPT ![t] = @ + Interval]
    /\ wRes' = [wRes EXCEPT ![t] = "none"]
    /\ pcW' = [pcW EXCEPT ![t] = "check"]
    /\ UNCHANGED <<wFrame, wSrc, sendsAfterStop, abortedSend, wroteAfterReturn>>
    /\ UNCHANGED <<now, wCur, wStart, wLastSend, wPacket>>
    /\ UNCHANGED <<pipeVars, ctlVars, callVars, testVars, statVars>>
    /\ UNCHANGED histVars

\* TW_Count scheduling the next tick one interval after this tick's clock
\* sample (a loop that accumulates its lateness).
TW_Count_Drifting(t) ==
    /\ pcW[t] = "count"
    /\ fps_counter' = fps_counter + 1
    /\ everSent' = TRUE
    /\ wNext' = [wNext EXCEPT ![t] = wCur[t] + Interval]
    /\ wRes' = [wRes EXCEPT ![t] = "none"]
    /\ pcW' = [pcW EXCEPT ![t] = "check"]
    /\ UNCHANGED <<wFrame, wSrc, sendsAfterStop, abortedSend, wroteAfterReturn>>
    /\ UNCHANGED <<now, wCur, wStart, wLastSend, wPacket>>
    /\ UNCHANGED <<pipeVars, ctlVars, callVars, testVars, statVars>>
    /\ UNCHANGED histVars

\* self.fps_counter += 1; next_send_time += target_interval;
\* if next_send_time < current_time:
\*     next_send_time = current_time + target_interval
TW_Count(t) ==
    /\ pcW[t] = "count"
    /\ fps_counter' = fps_counter + 1
    /\ everSent' = TRUE
    /\ wNext' = [wNext EXCEPT ![t] =
                    IF @ + Interval < wCur[t]
                    THEN wCur[t] + Interval
                    ELSE @ + Interval]
    /\ wRes' = [wRes EXCEPT ![t] = "none"]
    /\ pcW' = [pcW EXCEPT ![t] = "check"]
    /\ UNCHANGED <<wFrame, wSrc, sendsAfterStop, abortedSend, wroteAfterReturn>>
    /\ UNCHANGED <<now, wCur, wStart, wLastSend, wPacket>>
    /\ UNCHANGED <<pipeVars, ctlVars, callVars, testVars, statVars>>
    /\ UNCHANGED histVars

\* one statement of the loop of thread t, on the clock
TimedWorker(t) ==
    \/ W_Check(t) \/ TW_Due(t) \/ TW_Sleep(t) \/ W_Get(t) \/ W_Last(t)
    \/ W_SendCheck(t) \/ W_WriteBegin(t) \/ W_WriteEnd(t) \/ TW_Count(t)

\* ---------------------------------------------------------- specifications
Ingest ==
    \/ \E raw \in RawFrames : I_Receive(raw)
    \/ I_Observe
    \/ I_Put
    \/ I_Count
    \/ I_Full
    \/ I_Evict
    \/ I_Reput

Worker ==
    \E t \in Threads :
        \/ W_Check(t)
        \/ W_Due(t)
        \/ W_Sleep(t)
        \/ W_Get(t)
        \/ W_Last(t)
        \/ W_SendCheck(t)
        \/ W_WriteBegin(t)
        \/ W_WriteEnd(t)
        \/ W_Count(t)

Shutdown ==
    \/ S_JoinDone
    \/ S_JoinTimeout
    \/ S_StopReceiver
    \/ S_Close

\* The life cycle the command line and the examples follow: connect, one
\* start_protocol, one shutdown.
Next ==
    \/ (stopCalls = 0 /\ Connect)
    \/ (startCalls = 0 /\ stopCalls = 0 /\ StartReceiver)
    \/ StartThread
    \/ (startCalls = 1 /\ nthreads = 1 /\ stopCalls = 0 /\ S_Stop)
    \/ Shutdown
    \/ Ingest
    \/ Worker

Spec == Init /\ [][Next]_vars

\* Any order of control calls: start_protocol and shutdown may be repeated
\* (each at most MaxStart / MaxStop times); no packets arrive.
NextCtl ==
    \/ Connect
    \/ StartReceiver
    \/ StartThread
    \/ S_Stop
    \/ Shutdown
    \/ Worker

SpecCtl == Init /\ [][NextCtl]_vars

\* The bridge as the CLI's command loop drives it: one start, packets
\* (every channel at full), ticks and test patterns.
NextTest ==
    \/ Connect
    \/ (startCalls = 0 /\ StartReceiver)
    \/ StartThread
    \/ (\E raw \in {[i \in 1..DMX_CHANNELS |-> 255]} : I_Receive(raw))
    \/ I_Observe \/ I_Put \/ I_Count \/ I_Full \/ I_Evict \/ I_Reput
    \/ Worker
    \/ SendTest
SpecTest == Init /\ [][NextTest]_vars

\* The bridge with the status thread sampling it, no serial port attached:
\* one start, packets (every channel at full), ticks, one shutdown.
NextStats ==
    \/ (startCalls = 0 /\ stopCalls = 0 /\ StartReceiver)
    \/ StartThread
    \/ (startCalls = 1 /\ nthreads = 1 /\ stopCalls = 0 /\ S_Stop)
    \/ Shutdown
    \/ (\E raw \in {[i \in 1..DMX_CHANNELS |-> 255]} : I_Receive(raw))
    \/ I_Observe \/ I_Put \/ I_Count \/ I_Full \/ I_Evict \/ I_Reput
    \/ (\E t \in Threads :
            \/ W_Check(t) \/ W_Due(t) \/ W_Sleep(t) \/ W_Get(t) \/ W_Last(t)
            \/ W_SendCheck(t) \/ W_Count(t))
    \/ Diagnostics
SpecStats == Init /\ [][NextStats]_vars

\* The bridge used as a library, no serial port attached: one start, packets
\* (every channel at full), ticks, the blackout test pattern, and the caller's
\* item assignments on dmx_data.
NextAlias ==
    \/ (startCalls = 0 /\ StartReceiver)
    \/ StartThread
    \/ (\E raw \in {[i \in 1..DMX_CHANNELS |-> 255]} : I_Receive(raw))
    \/ I_Observe \/ I_Put \/ I_Count \/ I_Full \/ I_Evict \/ I_Reput
    \/ (\E t \in Threads :
            \/ W_Check(t) \/ W_Due(t) \/ W_Sleep(t) \/ W_Get(t) \/ W_Last(t)
            \/ W_SendCheck(t) \/ W_Count(t))
    \/ T_Begin("all_off") \/ T_Empty \/ T_Get \/ T_Put
    \/ (\E v \in PokeValues : Poke(v))

SpecAlias == Init /\ [][NextAlias]_vars

\* One statement of the output loop of thread t.
WorkerStep(t) ==
    \/ W_Check(t) \/ W_Due(t) \/ W_Sleep(t) \/ W_Get(t) \/ W_Last(t)
    \/ W_SendCheck(t) \/ W_WriteBegin(t) \/ W_WriteEnd(t) \/ W_Count(t)

\* One start, packets (every channel at full), ticks on a port that may be
\* open, one shutdown.
NextStop ==
    \/ (stopCalls = 0 /\ Connect)
    \/ (startCalls = 0 /\ stopCalls = 0 /\ StartReceiver)
    \/ StartThread
    \/ (startCalls = 1 /\ nthreads = 1 /\ stopCalls = 0 /\ S_Stop)
    \/ Shutdown
    \/ (\E raw \in {[i \in 1..DMX_CHANNELS |-> 255]} : I_Receive(raw))
    \/ I_Observe \/ I_Put \/ I_Count \/ I_Full \/ I_Evict \/ I_Reput
    \/ (\E t \in Threads : WorkerStep(t))

\* That program with its output thread scheduled fairly: a started thread that
\* can execute its next statement eventually does (the sleep of line 260 is
\* bounded, and ser.write returns or raises after write_timeout).
SpecStop ==
    Init /\ [][NextStop]_vars /\ \A t \in Threads : WF_vars(WorkerStep(t))

\* current_time >= next_send_time, with no bound on the number of ticks
D_Due(t) ==
    /\ pcW[t] = "time"
    /\ pcW' = [pcW EXCEPT ![t] = "get"]
    /\ UNCHANGED <<fps_counter, wFrame, wSrc, sendsAfterStop, everSent,
                   abortedSend, wroteAfterReturn>>
    /\ UNCHANGED <<pipeVars, ctlVars, sinkVars, callVars, testVars>>
    /\ UNCHANGED <<statVars, timeVars, histVars>>

\* self.fps_counter += 1, the count of the window kept up to MaxFps (no
\* get_fps call resets it here); back to the loop condition
D_Count(t) ==
    /\ pcW[t] = "count"
    /\ fps_counter' = IF fps_counter < MaxFps THEN fps_counter + 1
                                              ELSE fps_counter
    /\ everSent' = TRUE
    /\ pcW' = [pcW EXCEPT ![t] = "check"]
    /\ wRes' = [wRes EXCEPT ![t] = "none"]
    /\ UNCHANGED <<wFrame, wSrc, sendsAfterStop, abortedSend, wroteAfterReturn>>
    /\ UNCHANGED <<pipeVars, ctlVars, callVars, testVars, statVars, timeVars>>
    /\ UNCHANGED <<wPacket, histVars>>

\* One statement of the output loop of thread t, ticks unbounded.
DrainStep(t) ==
    \/ W_Check(t) \/ D_Due(t) \/ W_Sleep(t) \/ W_Get(t) \/ W_Last(t)
    \/ W_SendCheck(t) \/ W_WriteBegin(t) \/ W_WriteEnd(t) \/ D_Count(t)

\* One start, packets (every channel at full), and the output loop running
\* for ever, no shutdown.
NextDrain ==
    \/ Connect
    \/ (startCalls = 0 /\ StartReceiver)
    \/ StartThread
    \/ (\E raw \in {[i \in 1..DMX_CHANNELS |-> 255]} : I_Receive(raw))
    \/ I_Observe \/ I_Put \/ I_Count \/ I_Full \/ I_Evict \/ I_Reput
    \/ (\E t \in Threads : DrainStep(t))

\* The output thread is scheduled fairly, and its clock advances: each sleep
\* lasts half of the time left to next_send_time (lines 257-260), so a tick
\* is due after finitely many evaluations of line 236.
SpecDrain ==
    /\ Init /\ [][NextDrain]_vars
    /\ \A t \in Threads : WF_vars(DrainStep(t)) /\ SF_vars(D_Due(t))

\* One output loop on the clock, the clock free to run ahead of it at any
\* statement (a loop starved by system load).
NextTime ==
    \/ Connect
    \/ (startCalls = 0 /\ StartReceiver)
    \/ StartThread
    \/ (\E t \in Threads : TimedWorker(t))
    \/ Tick
SpecTime == Init /\ [][NextTime]_vars

\* One output loop on the clock, with an open port whose writes succeed and
\* every loop iteration taking less than one interval from its sample of
\* the clock.
IterationInTime ==
    \A t \in Threads : pcW[t] \notin {"none", "done"} => now' - wCur[t] < Interval
NextRate ==
    \/ (Connect /\ ser' = "open")
    \/ (startCalls = 0 /\ ser = "open" /\ StartReceiver)
    \/ StartThread
    \/ (\E t \in Threads : TimedWorker(t) /\ wRes'[t] # "err")
    \/ (Tick /\ IterationInTime)
SpecRate == Init /\ [][NextRate]_vars

\* =================================================================== claims

\* C1: when an ingestion call returns, the frame it was given has been put
\* on the queue as its newest element (the overload policy never discards
\* the new frame).
C1_PushedFrameIsQueued ==
    (pcI = "idle" /\ pushes > 0) => pushes \in enq

\* C2: a callback removes a frame from the queue only when the queue holds
\* exactly FRAME_BUFFER_SIZE frames at that moment, and then removes one
\* frame, the oldest.
C2_EvictsOnlyWhenFull ==
    [][(pcI = "evict" /\ pcI' = "reput")
         => (/\ Len(frame_queue) = FRAME_BUFFER_SIZE
             /\ frame_queue' = Tail(frame_queue))]_vars

\* C3 (as stated): after n ingestion calls processed_frames = n.
C3_ProcessedCountsEveryPush ==
    pcI = "idle" => processed_frames = pushes

\* C3 (amended): processed_frames counts exactly the calls whose first
\* put_nowait found free capacity; a call that found the queue full raises
\* dropped_frames only.
C3_ProcessedCountsFreePushes ==
    pcI = "idle" => /\ processed_frames = pushes - fullPushes
                    /\ dropped_frames = fullPushes

C3_Witness ==
    pcI = "idle" /\ fullPushes >= 1 /\ processed_frames = FRAME_BUFFER_SIZE

\* C4: with no ingestion call in progress, processed_frames +
\* dropped_frames is the number of ingestion calls made.
C4_CountersSumToPushes ==
    pcI = "idle" => processed_frames + dropped_frames = pushes

C4_Witness ==
    /\ pcI = "idle"
    /\ pushes = MaxPush
    /\ dropped_frames >= 1
    /\ processed_frames >= 1
    /\ fps_counter >= 1

\* Frames whose content some ingestion call was given.
Pushed(id) == \E i \in 1..pushes : heap[i] = heap[id]

\* C5: on a tick that finds the queue empty the frame handed to the sink
\* is dmx_data, the last known frame, and every frame handed to the sink
\* has the content of a frame that was pushed.
C5_SendsOnlyPushedFrames ==
    [][\A t \in Threads :
         /\ (pcW[t] = "empty" /\ pcW'[t] = "send") => wFrame'[t] = dmx_data
         /\ (pcW[t] \in {"get", "empty"} /\ pcW'[t] = "send")
              => Pushed(wFrame'[t])]_vars

\* C6: a tick that finds the queue empty writes a frame to the transport
\* only if some frame was pushed or sent before.
C6_NothingSentBeforeFirstFrame ==
    \A t \in Threads :
        (pcW[t] = "writing" /\ wSrc[t] = "last") => (pushes > 0 \/ everSent)

\* C7 (as stated): no sink call begins once shutdown has cleared running.
C7_NoSendAfterStop ==
    sendsAfterStop = 0

\* C7 (amended): once shutdown has cleared running, the worker begins at
\* most one more sink call (that of the iteration that had passed
\* `while self.running` before), and none after it tests the flag again.
C7_AtMostOneSendAfterStop ==
    /\ sendsAfterStop <= 1
    /\ \A t \in Threads :
         (sendsAfterStop = 1 /\ ~running) => pcW[t] \notin {"time", "get", "empty", "send"}

C7_Witness ==
    sendsAfterStop = 1 /\ pcW[1] = "done" /\ stopCalls = 1

\* C8: after shutdown() has returned no write to the transport completes,
\* and a send that was in progress when shutdown() was called completes
\* (the port is not closed under it).
C8_ShutdownQuiescesTransport ==
    ~wroteAfterReturn /\ ~abortedSend

\* C9: start_protocol while running is True creates no thread and changes
\* nothing; shutdown while running is False changes neither the flag nor
\* any thread.
C9_RedundantControlIsNoOp ==
    [][/\ (running /\ pcC = "start" /\ pcC' = "idle")
            => (pcW' = pcW /\ output_thread' = output_thread)
       /\ (~running /\ pcC = "idle" /\ pcC' = "join")
            => (pcW' = pcW /\ running' = running)]_vars

\* The activity lines that the first n pushed frames call for: one per
\* change of has_data, starting from False.
RECURSIVE ExpectedEvents(_)
ExpectedEvents(n) ==
    IF n = 0 THEN <<>>
    ELSE LET h == HasData(heap[n])
             prev == IF n = 1 THEN FALSE ELSE HasData(heap[n - 1])
         IN  IF h # prev
             THEN Append(ExpectedEvents(n - 1), EventOf(h))
             ELSE ExpectedEvents(n - 1)

\* Pushes whose activity check has run.
Observed == IF pcI = "observe" THEN pushes - 1 ELSE pushes

\* C10: the activity lines printed are exactly one per change of has_data
\* between consecutive pushes (from False), so they alternate
\* ACTIVE / INACTIVE; worker ticks print none.
C10_EventsAreEdges ==
    /\ events = ExpectedEvents(Observed)
    /\ Len(events) > 0 => events[1] = "ACTIVE"
    /\ \A i \in 1..(Len(events) - 1) : events[i] # events[i + 1]

C10_Witness ==
    /\ pcI = "idle"
    /\ pushes = 3
    /\ HasData(heap[1]) /\ ~HasData(heap[2]) /\ ~HasData(heap[3])
    /\ events = <<"ACTIVE", "INACTIVE">>
    /\ \E t \in Threads : pcW[t] = "send" /\ wSrc[t] = "last" /\ fps_counter >= 1

\* ------------------------------------------------------------ frame shape

\* C12: whatever the length of the frame a callback is given, the frame it
\* stores (in self.dmx_data and in the queue) has exactly DMX_CHANNELS
\* values: the input's values followed by zeros when it is shorter, its
\* first DMX_CHANNELS values when it is longer, the input itself when equal;
\* every frame in the queue has DMX_CHANNELS values.
C12_StoredFrameHasLengthN ==
    /\ \A i \in 1..Len(frame_queue) :
           Len(heap[frame_queue[i]]) = DMX_CHANNELS
    /\ Len(heap[dmx_data]) = DMX_CHANNELS
    /\ pushes > 0 =>
         /\ dmx_data = pushes
         /\ \A i \in 1..DMX_CHANNELS :
                heap[pushes][i] = IF i <= Len(lastRaw) THEN lastRaw[i] ELSE 0

C12_Witness ==
    /\ Len(lastRaw) > DMX_CHANNELS
    /\ Len(frame_queue) = FRAME_BUFFER_SIZE
    /\ frame_queue[Len(frame_queue)] = pushes
    /\ HasData(heap[frame_queue[1]])
    /\ ~HasData(heap[pushes])

\* ----------------------------------------------------------------- packet

\* the channel values a receiver reads back: bytes 3 .. N+2 (from 0)
Decode(packet) == SubSeq(packet, 4, Len(packet))

\* channel counts on both sides of the one-byte boundary
ChannelCounts == {1, DMX_CHANNELS, 255, 256, 257, 512}

\* C13: the packet handed to the serial port is 0xFF, the channel count's
\* low byte, its high byte, then the frame's values: DMX_CHANNELS + 3
\* bytes, from which the frame is read back unchanged; the two count bytes
\* give back the count.
C13_PacketLayout ==
    /\ \A n \in ChannelCounts :
           /\ CountLo(n) \in 0..255 /\ CountHi(n) \in 0..255
           /\ CountLo(n) + 256 * CountHi(n) = n
    /\ \A t \in Threads :
         pcW[t] = "writing" =>
           LET frame == heap[wFrame[t]] IN
           /\ wPacket[t] =
                <<255, DMX_CHANNELS % 256, DMX_CHANNELS \div 256>> \o frame
           /\ Len(wPacket[t]) = DMX_CHANNELS + 3
           /\ Decode(wPacket[t]) = frame
           /\ \A i \in 1..Len(wPacket[t]) : wPacket[t][i] \in 0..255

C13_Witness ==
    \E t \in Threads :
        /\ pcW[t] = "writing"
        /\ wSrc[t] = "queue"
        /\ heap[wFrame[t]] = <<255, 0>> \o Zeros(DMX_CHANNELS - 2)
        /\ Len(wPacket[t]) = DMX_CHANNELS + 3

\* ------------------------------------------------------ transport failures

\* C14: a send on a port that is absent or not open goes straight on
\* without building a packet, without an error and without touching the
\* loop flag; a bridge whose port never opened never writes and never
\* reports a write error, while pushes and ticks go on.
C14_ClosedPortSkipsSilently ==
    [][/\ \A t \in Threads :
            (pcW[t] = "send" /\ pcW'[t] # "send" /\ ser # "open") =>
                /\ pcW'[t] = "count"
                /\ wRes'[t] = "skip"
                /\ wPacket'[t] = <<>>
                /\ running' = running
                /\ frame_queue' = frame_queue
       /\ ser' = "none" =>
            \A t \in Threads : wRes'[t] # "err" /\ pcW'[t] \notin InSink]_vars

C14_Witness ==
    /\ ser = "none"
    /\ running
    /\ processed_frames > 0
    /\ \E t \in Threads :
         pcW[t] = "count" /\ wRes[t] = "skip" /\ wSrc[t] = "queue"
    /\ fps_counter > 0

\* C15: a write that raises ends the send: the tick goes on to its
\* bookkeeping, the loop flag and the queue are as they were (the frame is
\* not put back), and the loop goes back to its condition, which ends it
\* only when the loop flag is down.
C15_FailedWriteIsDropped ==
    [][\A t \in Threads :
         /\ (pcW[t] = "writing" /\ pcW'[t] # "writing" /\ wRes'[t] = "err") =>
               /\ pcW'[t] = "count"
               /\ frame_queue' = frame_queue
               /\ running' = running
               /\ wPacket'[t] = <<>>
         /\ (pcW[t] = "count" /\ pcW'[t] # "count") => pcW'[t] = "check"
         /\ (pcW[t] = "check" /\ pcW'[t] = "done") => ~running]_vars

C15_Witness ==
    \E t \in Threads :
        /\ wRes[t] = "err"
        /\ pcW[t] = "count"
        /\ wSrc[t] = "queue"
        /\ fps_counter > 0
        /\ running

\* ------------------------------------------------------------ non-blocking

\* the statements of a callback after its first
IngestStep ==
    I_Observe \/ I_Put \/ I_Count \/ I_Full \/ I_Evict \/ I_Reput

\* the statements of one tick of thread t, from the pop to the bookkeeping
TickStep(t) ==
    \/ W_Get(t) \/ W_Last(t) \/ W_SendCheck(t)
    \/ W_WriteBegin(t) \/ W_WriteEnd(t) \/ W_Count(t)

\* statements a callback at pcI still has to run, at most
Rank(pc) ==
    CASE pc = "observe" -> 5
      [] pc = "put"     -> 4
      [] pc = "full"    -> 3
      [] pc = "evict"   -> 2
      [] pc = "reput"   -> 1
      [] pc = "count"   -> 1
      [] OTHER          -> 0

\* C16: a callback under way can always take its next statement, whatever
\* the output loop is doing and however full the queue is, and finishes
\* within six statements; a tick under way can always take its next
\* statement, with or without a frame in the queue; no statement of a
\* callback touches the serial port.
C16_NeverBlocks ==
    /\ [](/\ pcI # "idle" => ENABLED IngestStep
          /\ \A t \in Threads :
               pcW[t] \in {"get", "empty", "send", "write", "writing", "count"}
                   => ENABLED TickStep(t))
    /\ [][/\ (pcI # "idle" /\ pcI' # pcI) => Rank(pcI') < Rank(pcI)
          /\ pcI' # pcI => UNCHANGED <<sinkVars, pcW, ser>>]_vars

C16_Witness ==
    /\ pcI = "evict"
    /\ Len(frame_queue) = FRAME_BUFFER_SIZE
    /\ \E t \in Threads : pcW[t] = "writing"

\* --------------------------------------------------------- last known frame

\* C20 as stated: once a tick has popped a frame and written it,
\* self.dmx_data is that frame.
C20_SendOverwritesLastKnown ==
    \A t \in Threads :
        (pcW[t] = "count" /\ wSrc[t] = "queue" /\ wRes[t] = "ok")
            => dmx_data = wFrame[t]

\* C20: a send does not store anything in self.dmx_data: it stays the
\* frame of the latest callback, which is the frame just popped and
\* written or one received after it.
C20_LastKnownIsLatestReceived ==
    /\ dmx_data = pushes
    /\ \A t \in Threads :
         (pcW[t] = "count" /\ wSrc[t] = "queue") => wFrame[t] <= dmx_data

C20_Witness ==
    \E t \in Threads :
        /\ pcW[t] = "count" /\ wSrc[t] = "queue" /\ wRes[t] = "ok"
        /\ dmx_data # wFrame[t]
        /\ heap[dmx_data] # heap[wFrame[t]]

\* --------------------------------------------------------------- activity

\* C11: whenever no callback and no control call is under way, self.active
\* is true exactly when self.dmx_data has a nonzero channel.
C11_ActiveIffNonzero ==
    (pcI = "idle" /\ pcC = "idle") => (active <=> HasData(heap[dmx_data]))

\* ------------------------------------------------------------ diagnostics

\* a step of a diagnostic call
DiagStep == pcG' # pcG \/ samples' # samples

\* the steps at which get_fps and get_performance_stats return
FpsReturns ==
    \/ pcG = "g_reset" /\ pcG' = "idle"
    \/ pcG = "idle" /\ pcG' = "idle" /\ samples' # samples
StatsReturns == pcG = "s_return" /\ pcG' = "idle"

\* C18: no step of get_fps or get_performance_stats changes the two frame
\* counters, the queue or self.dmx_data, and none divides by zero; the
\* dictionary returned carries the counters as they are at the return, so
\* their final values after shutdown; on a bridge not yet started they
\* return rate 0, processed 0, dropped 0 and drop rate 0.
C18_DiagnosticsOnlyRead ==
    [][/\ DiagStep =>
            /\ UNCHANGED <<processed_frames, dropped_frames, frame_queue,
                           dmx_data, heap>>
            /\ fps' # <<"ZeroDivisionError">>
            /\ gRate' # <<"ZeroDivisionError">>
       /\ FpsReturns =>
            /\ gFps' = fps'[1] \div fps'[2]
            /\ (startCalls = 0 /\ pushes = 0) => gFps' = 0
       /\ StatsReturns =>
            /\ gStats'.processed_frames = processed_frames'
            /\ gStats'.dropped_frames = dropped_frames'
            /\ gStats'.fps = fps'
            /\ (startCalls = 0 /\ pushes = 0) =>
                   /\ gStats'.fps[1] = 0
                   /\ gStats'.processed_frames = 0
                   /\ gStats'.dropped_frames = 0
                   /\ gStats'.drop_rate[1] = 0]_vars

C18_Witness ==
    /\ stopCalls = 1 /\ pcC = "idle" /\ pcI = "idle" /\ pcG = "idle"
    /\ gStats.processed_frames = 2 /\ processed_frames = 2
    /\ gStats.dropped_frames = 1 /\ dropped_frames = 1
    /\ gStats.drop_rate = <<100, 3>>
    /\ fps_counter > 0

\* ----------------------------------------------------------------- timing

\* calls of the sink the loop of thread t has made (with one output loop)
Sends(t) ==
    fps_counter + IF pcW[t] \in {"write", "writing", "count"} THEN 1 ELSE 0

\* the step that ends a processed tick
TickEnds(t) == pcW[t] = "count" /\ pcW'[t] = "check"

\* the step that calls the sink
SinkCalled(t) == pcW[t] = "send" /\ pcW'[t] # "send"

\* C17: with an open port whose writes succeed and iterations shorter than
\* one interval, the frames sent T after the loop started number more than
\* T / Interval - 2 and at most T / Interval + 1, whatever T is.
C17_RateWithoutDrift ==
    \A t \in Threads :
        pcW[t] # "none" =>
            /\ Interval * (Sends(t) - 1) <= now - wStart[t]
            /\ now - wStart[t] < Interval * (Sends(t) + 2)

C17_Witness ==
    \E t \in Threads :
        /\ now - wStart[t] = 3 * Interval - 1
        /\ fps_counter = 3
        /\ wRes[t] = "none" /\ ser = "open"

\* C19 as stated: a processed tick moves next_send_time on by at least one
\* interval, to no earlier than the tick's clock sample, and any stretch of
\* time holds at most floor(T / Interval) + 1 sends: two sends are at
\* least one interval apart.
C19_SendsAnIntervalApart ==
    [][\A t \in Threads :
         /\ TickEnds(t) =>
               /\ wNext'[t] >= wNext[t] + Interval
               /\ wNext'[t] >= wCur[t]
         /\ (SinkCalled(t) /\ fps_counter > 0) =>
               now - wLastSend[t] >= Interval]_vars

\* C19: a processed tick moves next_send_time on by at least one interval,
\* to no earlier than the tick's clock sample (to the sample plus one
\* interval when one interval on is still behind the sample); the sends
\* made in the first T ticks of the clock after the loop started number at
\* most floor(T / Interval) + 1, however the loop was stalled.
C19_TickAdvancesAndResyncs ==
    [][\A t \in Threads :
         /\ TickEnds(t) =>
               /\ wNext'[t] >= wNext[t] + Interval
               /\ wNext'[t] >= wCur[t]
               /\ wNext[t] + Interval < wCur[t] =>
                      wNext'[t] = wCur[t] + Interval
         /\ pcW'[t] # "none" =>
               Interval * (Sends(t)' - 1) <= now' - wStart'[t]]_vars

C19_Witness ==
    \E t \in Threads :
        /\ pcW[t] = "check"
        /\ fps_counter = 2
        /\ wCur[t] > 2 * Interval
        /\ wNext[t] = wCur[t] + Interval
        /\ wLastSend[t] < now

\* C23: when shutdown() returns, the frame buffer is empty: the only frame the
\* pipeline still holds is the one dmx_data refers to.
C23_QueueDrainedAtShutdown ==
    [][(pcC = "close" /\ pcC' = "idle") => frame_queue' = <<>>]_vars

\* C22: every send is counted in exactly one sampling window: the count
\* get_fps erases when it resets the window is the count it has just used for
\* the rate (the numerator of fps), so no increment of the loop is lost.
C22_EverySendInOneWindow ==
    [][(pcG = "g_reset" /\ pcG' = "idle") => fps_counter = fps[1]]_vars

\* C27 (first part): frame conservation: whenever no ingestion call and no
\* send_test call is in progress, the pushes made are the frames the loop
\* popped, plus the frames in the queue, plus dropped_frames.
Conserved ==
    (pcI = "idle" /\ pcC = "idle")
        => pushes = popped + Len(frame_queue) + dropped_frames

\* C27 (second part): a frame leaves the queue only when the loop pops it or
\* when a push that has counted a drop evicts it.
LeavesSentOrCounted ==
    Len(frame_queue') < Len(frame_queue)
        => (popped' = popped + 1 \/ pcI = "evict")

\* C27: frame conservation, both parts, with send_test calls in the sequence.
C27_FrameConservation ==
    []Conserved /\ [][LeavesSentOrCounted]_vars

\* C28: when send_test returns, dmx_data holds the pattern and the queue holds
\* min(5, capacity) frames, each of them the pattern, also when callbacks and
\* the output loop run during the call.
C28_TestPatternImmediate ==
    [][(pcC = "t_put" /\ pcC' = "idle")
        => /\ heap'[dmx_data'] = heap[tData]
           /\ Len(frame_queue') = (IF TEST_COPIES < FRAME_BUFFER_SIZE
                                   THEN TEST_COPIES ELSE FRAME_BUFFER_SIZE)
           /\ \A i \in 1..Len(frame_queue') :
                 heap'[frame_queue'[i]] = heap[tData]]_vars

\* C21 (first part): no queue entry is the list object dmx_data refers to, and
\* no two queue entries are the same list object.
NoAliasing ==
    /\ \A i \in 1..Len(frame_queue) : frame_queue[i] # dmx_data
    /\ \A i, j \in 1..Len(frame_queue) :
          i # j => frame_queue[i] # frame_queue[j]

\* C21 (second part): no step, an item assignment on dmx_data included,
\* changes the content of a frame that is in the queue.
QueuedContentFixed ==
    \A i \in 1..Len(frame_queue) :
        heap'[frame_queue[i]] = heap[frame_queue[i]]

\* C21: queued frames are independent copies, both parts.
C21_QueuedFramesAreCopies ==
    []NoAliasing /\ [][QueuedContentFixed]_vars

\* id is the id of an entry of the queue
InQueue(id) == \E i \in 1..Len(frame_queue) : frame_queue[i] = id

\* C26: with one ingestion task and one output loop, the frames handed to the
\* sink, resends of dmx_data included, are in push order: the frame the loop
\* takes for a send is never older than the one it sent before.
C26_SendsMonotone ==
    [][\A t \in Threads :
          (pcW[t] # "send" /\ pcW'[t] = "send") => wFrame'[t] >= wFrame[t]]_vars

\* C26 as amended: the frames popped are in push order, each newer than every
\* frame that was queued before and has left the queue (popped or evicted); a
\* resend takes the frame received latest, whatever the queue holds then.
C26_PopsInPushOrder ==
    [][\A t \in Threads :
          /\ (pcW[t] = "get" /\ pcW'[t] = "send")
                => /\ wFrame'[t] = Head(frame_queue)
                   /\ \A e \in enq : ~InQueue(e) => e < Head(frame_queue)
          /\ (pcW[t] = "empty" /\ pcW'[t] = "send")
                => (wFrame'[t] = dmx_data /\ dmx_data = pushes)]_vars

C26_Witness ==
    \E t \in Threads :
        /\ pcW[t] = "send"
        /\ wSrc[t] = "queue"
        /\ popped = 2
        /\ wFrame[t] > 1

\* C24: after shutdown has cleared the running flag, every started output loop
\* eventually exits, wherever in its iteration the flag was cleared.
C24_LoopTerminates ==
    \A t \in Threads : (~running /\ pcW[t] # "none") ~> (pcW[t] = "done")

C24_Witness ==
    \E t \in Threads :
        /\ t \in inSendAtStop
        /\ ~running
        /\ pcW[t] = "done"

\* C25 (safety part): a frame leaves the queue only popped by the loop or
\* evicted by a push.
LeavesPoppedOrEvicted ==
    \A id \in 1..MaxPush :
        (InQueue(id) /\ ~InQueue(id)')
            => \/ pcI = "evict"
               \/ \E t \in Threads : pcW'[t] = "send" /\ wFrame'[t] = id

\* C25 (safety part): a tick that finds the queue empty sends dmx_data.
ResendsWhenEmpty ==
    \A t \in Threads :
        /\ (pcW[t] = "get" /\ frame_queue = <<>> /\ pcW'[t] # "get")
              => pcW'[t] = "empty"
        /\ (pcW[t] = "empty" /\ pcW'[t] # "empty")
              => (pcW'[t] = "send" /\ wFrame'[t] = dmx_data)

\* C25: while the loop runs, every frame in the queue eventually leaves it,
\* and it leaves only popped by the loop, which then hands it to the sink, or
\* evicted by a push; pushes being finitely many, the queue is eventually
\* empty for good, and from an empty queue the tick resends dmx_data.
C25_BufferDrains ==
    /\ \A id \in 1..MaxPush : (running /\ InQueue(id)) ~> ~InQueue(id)
    /\ \A t \in Threads : (pcW[t] = "send") ~> (pcW[t] \in {"write", "count"})
    /\ <>[](running => frame_queue = <<>>)
    /\ [][LeavesPoppedOrEvicted /\ ResendsWhenEmpty]_vars

C25_Witness ==
    /\ running
    /\ pushes = MaxPush
    /\ pcI = "idle"
    /\ frame_queue = <<>>
    /\ popped >= 2
    /\ \E t \in Threads : pcW[t] = "send" /\ wSrc[t] = "last"

====
